---- MODULE Spec2Model ----
(***************************************************************************)
(* A model of parse_csv.py: the vacancy analysis pipeline                  *)
(* (analyze_vacancies) and the functions it is built from                  *)
(* (clean_salaries, get_currency_rates, calculate_salary, the keyword      *)
(* filter, the skills split of plot_skills).                               *)
(*                                                                         *)
(* Values.  A pandas/JSON scalar is a record [t, v]: t is "num" (v the     *)
(* number), "nan" (a missing cell), "none" (Python None / JSON null) or    *)
(* "str" (a JSON string where a number was expected).  Text cells are      *)
(* records [t, s] with s a sequence of one-character tokens; the Cyrillic  *)
(* letter "i" of the source is the token "cyr_i" (capital: "CYR_I").       *)
(*                                                                         *)
(* Numbers.  Salaries are integers, exchange rates are kept in hundredths  *)
(* (RUR = 100, the default USD = 9000, the default KZT 0.18 = 18) and a    *)
(* computed salary is kept in 1/200 units, so that (from + to) / 2 * rate  *)
(* is the exact integer (from + to) * rate100.                             *)
(***************************************************************************)
EXTENDS Integers, Sequences, FiniteSets, TLC

VARIABLES
    arg,        \* the argument of the function under call (function specifications)
    ret,        \* what the call returned
    called,     \* whether the call has been made
    pc,         \* analyze_vacancies: the statement the run is at
    file,       \* analyze_vacancies: what read_csv finds under filename
    keywords,   \* analyze_vacancies: the keywords argument
    df,         \* analyze_vacancies: the local df
    filtered,   \* analyze_vacancies: the local filtered (with year, salary)
    i,          \* the row DataFrame.apply is at
    result,     \* the values DataFrame.apply has computed so far
    resps,      \* the response each requests.get of the run got, in order
    fetches,    \* calls of get_currency_rates in the run
    requests,   \* requests.get calls in the run
    stdout,     \* lines printed by the run
    charts,     \* the chart functions called, with the data each one drew
    events      \* the steps the run has started, in order

callVars == <<arg, ret, called>>
runVars == <<pc, file, keywords, df, filtered, i, result, resps, fetches, requests,
             stdout, charts, events>>
vars == <<arg, ret, called, pc, file, keywords, df, filtered, i, result, resps, fetches,
          requests, stdout, charts, events>>

-----------------------------------------------------------------------------
(* Bounds *)
MaxRate == 2        \* JSON "Value" numbers are 1..MaxRate
MaxSalary == 2      \* salary bounds are 1..MaxSalary
MaxRows == 2        \* rows of a table
MaxKwLen == 2       \* characters of a keyword
MaxKeywords == 2    \* keywords of a call
MaxTitleLen == 2    \* characters of a vacancy title
MaxSkills == 3      \* skill names of a generated key_skills cell

-----------------------------------------------------------------------------
(* Scalars *)
Num(n) == [t |-> "num", v |-> n]
NaN == [t |-> "nan", v |-> 0]
None == [t |-> "none", v |-> 0]
Str == [t |-> "str", v |-> 0]

\* pd.isna
isna(x) == x.t \in {"nan", "none"}

-----------------------------------------------------------------------------
(* get_currency_rates *)

\* What one Valute.<CODE> lookup can find: no such key, an entry without
\* "Value", or an entry whose Value is null, a string or a number.
Absent == [t |-> "absent", v |-> 0]
NoValue == [t |-> "novalue", v |-> 0]
JsonValues == {Absent, NoValue, None, Str} \cup {Num(n) : n \in 1..MaxRate}

\* What requests.get(...) followed by response.json() can produce.
Responses ==
    {[kind |-> "RequestException", USD |-> Absent, EUR |-> Absent, KZT |-> Absent],
     [kind |-> "NotJSON", USD |-> Absent, EUR |-> Absent, KZT |-> Absent],
     [kind |-> "NoValute", USD |-> Absent, EUR |-> Absent, KZT |-> Absent]}
    \cup [kind : {"JSON"}, USD : JsonValues, EUR : JsonValues, KZT : JsonValues]

\* data['Valute'][code]['Value'] raises KeyError
KeyError(x) == x.t \in {"absent", "novalue"}

\* x / 100 raises TypeError
DivTypeError(x) == x.t \in {"none", "str"}

\* A number of the JSON body as a rate in hundredths
Times100(x) == IF x.t = "num" THEN Num(100 * x.v) ELSE x

\* The fallback table of the except branch
DefaultRates ==
    [RUR |-> Num(100), USD |-> Num(9000), EUR |-> Num(10000), KZT |-> Num(18)]

\* Mutant: the live dictionary is built without the reference currency
LiveRates_NoRUR(resp) ==
    IF resp.kind # "JSON" THEN [exc |-> TRUE, rates |-> DefaultRates]
    ELSE IF KeyError(resp.USD) \/ KeyError(resp.EUR) \/ KeyError(resp.KZT)
            \/ DivTypeError(resp.KZT)
         THEN [exc |-> TRUE, rates |-> DefaultRates]
         ELSE [exc |-> FALSE,
               rates |-> [USD |-> Times100(resp.USD),
                          EUR |-> Times100(resp.EUR),
                          KZT |-> resp.KZT]]

\* The try body: outcome "raise" or the rates dictionary
LiveRates(resp) ==
    IF resp.kind # "JSON" THEN [exc |-> TRUE, rates |-> DefaultRates]
    ELSE IF KeyError(resp.USD) \/ KeyError(resp.EUR) \/ KeyError(resp.KZT)
            \/ DivTypeError(resp.KZT)
         THEN [exc |-> TRUE, rates |-> DefaultRates]
         ELSE [exc |-> FALSE,
               rates |-> [RUR |-> Num(100),
                          USD |-> Times100(resp.USD),
                          EUR |-> Times100(resp.EUR),
                          KZT |-> resp.KZT]]

\* Mutant: the handler catches the request's errors only; a KeyError escapes
get_currency_rates_KeyErrorEscapes(resp) ==
    LET body == LiveRates(resp)
    IN  IF body.exc /\ resp.kind = "JSON"
        THEN [kind |-> "raise", value |-> DefaultRates, printed |-> FALSE, requests |-> 1]
        ELSE IF body.exc
        THEN [kind |-> "return", value |-> DefaultRates, printed |-> TRUE, requests |-> 1]
        ELSE [kind |-> "return", value |-> body.rates, printed |-> FALSE, requests |-> 1]

\* The result of a call: how it ended, the table returned, whether the except
\* branch printed its message, and the requests.get calls made (the try body
\* holds one, and nothing repeats it).
get_currency_rates(resp) ==
    LET body == LiveRates(resp)
    IN  IF body.exc
        THEN [kind |-> "return", value |-> DefaultRates, printed |-> TRUE, requests |-> 1]
        ELSE [kind |-> "return", value |-> body.rates, printed |-> FALSE, requests |-> 1]

-----------------------------------------------------------------------------
(* The run is idle in the function specifications *)
RunIdle ==
    /\ pc = "idle" /\ file = <<>> /\ keywords = <<>> /\ df = <<>>
    /\ filtered = <<>> /\ i = 0 /\ result = <<>> /\ resps = <<>> /\ fetches = 0
    /\ requests = 0 /\ stdout = <<>> /\ charts = <<>> /\ events = <<>>

NoRet == [kind |-> "none"]

InitRates == arg \in Responses /\ ret = NoRet /\ called = FALSE /\ RunIdle

CallRates ==
    /\ ~called
    /\ ret' = get_currency_rates(arg)
    /\ called' = TRUE
    /\ UNCHANGED <<arg, runVars>>

SpecRates == InitRates /\ [][CallRates]_vars

\* The outcomes of the request under which the try body raises: the request
\* fails, the body is not JSON, Valute or one of Valute.USD/EUR/KZT.Value is
\* missing, or the KZT value cannot be divided by 100.
FetchRaises(resp) ==
    \/ resp.kind \in {"RequestException", "NotJSON", "NoValute"}
    \/ \E x \in {resp.USD, resp.EUR, resp.KZT} : x \in {Absent, NoValue}
    \/ resp.KZT \in {None, Str}

\* C1: get_currency_rates never raises to its caller: for every outcome of
\* the request it returns a table, and whenever an exception occurs inside
\* the fetch the table is exactly {RUR: 1, USD: 90, EUR: 100, KZT: 0.18}.
Thm_C1 ==
    called =>
        /\ ret.kind = "return"
        /\ (FetchRaises(arg) \/ ret.printed) =>
               ret.value = [RUR |-> Num(100), USD |-> Num(9000),
                            EUR |-> Num(10000), KZT |-> Num(18)]

\* A JSON body whose KZT value is a string: the division raises
Wit_C1 ==
    /\ called /\ arg.kind = "JSON" /\ arg.KZT = Str
    /\ arg.USD = Num(1) /\ arg.EUR = Num(1)
    /\ ret.kind = "return" /\ ret.printed /\ ret.value.USD = Num(9000)

\* C2: every table get_currency_rates returns, live or fallback, maps RUR
\* to 1 and has entries for USD, EUR and KZT.
Thm_C2 ==
    (called /\ ret.kind = "return") =>
        /\ {"RUR", "USD", "EUR", "KZT"} \subseteq DOMAIN ret.value
        /\ ret.value.RUR = Num(100)

\* A live table
Wit_C2 ==
    /\ called /\ ~ret.printed /\ ret.kind = "return"
    /\ ret.value.USD = Num(100 * MaxRate) /\ ret.value.KZT = Num(1)

-----------------------------------------------------------------------------
(* Tables.  A DataFrame is the sequence of its rows; a row is a record of   *)
(* its cells, idx being the row's index label.  An opaque text cell (city,  *)
(* currency code) is a string, "" when the cell is missing.                *)

Text(s) == [t |-> "str", s |-> s]
NaNText == [t |-> "nan", s |-> <<>>]

\* Whether the cell of column f is missing in row r
CellNa(r, f) ==
    IF f \in {"salary_from", "salary_to"} THEN isna(r[f])
    ELSE IF f \in {"name", "key_skills"} THEN r[f].t = "nan"
    ELSE r[f] = ""

\* Series.fillna(other): the cells of col, a missing one replaced by other's
fillna(col, other) ==
    [k \in 1..Len(col) |-> IF isna(col[k]) THEN other[k] ELSE col[k]]

Column(d, f) == [k \in 1..Len(d) |-> d[k][f]]

\* df[f] = col
SetColumn(d, f, col) == [k \in 1..Len(d) |-> [d[k] EXCEPT ![f] = col[k]]]

\* DataFrame.dropna(subset=..., how=...)
dropna(d, subset, how) ==
    LET Keep(r) == IF how = "all" THEN \E f \in subset : ~CellNa(r, f)
                   ELSE \A f \in subset : ~CellNa(r, f)
    IN  SelectSeq(d, Keep)

\* Mutant: salary_to is not filled from salary_from
clean_salaries_NoFillTo(d) ==
    LET d1 == SetColumn(d, "salary_from",
                        fillna(Column(d, "salary_from"), Column(d, "salary_to")))
    IN  dropna(d1, {"salary_from", "salary_to"}, "all")

clean_salaries(d) ==
    LET d1 == SetColumn(d, "salary_from",
                        fillna(Column(d, "salary_from"), Column(d, "salary_to")))
        d2 == SetColumn(d1, "salary_to",
                        fillna(Column(d1, "salary_to"), Column(d1, "salary_from")))
    IN  dropna(d2, {"salary_from", "salary_to"}, "all")

Salaries == {NaN} \cup {Num(n) : n \in 1..MaxSalary}

\* The rows clean_salaries is called on: every pair of salary cells
SalaryRows ==
    [idx : {0}, name : {Text(<<"A">>)}, area_name : {"Moscow"}, published_at : {2023},
     salary_from : Salaries, salary_to : Salaries, salary_currency : {"RUR"},
     key_skills : {Text(<<"p">>)}]

\* The tables of at most MaxRows rows drawn from rows, indexed 0, 1, ...
Reindex(d) == [k \in 1..Len(d) |-> [d[k] EXCEPT !.idx = k - 1]]
Tables(rows) ==
    {Reindex(d) : d \in UNION {[1..n -> rows] : n \in 0..MaxRows}}

InitClean == arg \in Tables(SalaryRows) /\ ret = NoRet /\ called = FALSE /\ RunIdle

CallClean ==
    /\ ~called
    /\ ret' = clean_salaries(arg)
    /\ called' = TRUE
    /\ UNCHANGED <<arg, runVars>>

SpecClean == InitClean /\ [][CallClean]_vars

\* What the claim says of one row: absent (the empty sequence) when both
\* bounds are missing, else the row with a missing bound set to the other
CleanedRow(r) ==
    IF r.salary_from = NaN /\ r.salary_to = NaN THEN <<>>
    ELSE IF r.salary_from = NaN THEN <<[r EXCEPT !.salary_from = r.salary_to]>>
    ELSE IF r.salary_to = NaN THEN <<[r EXCEPT !.salary_to = r.salary_from]>>
    ELSE <<r>>

RECURSIVE CleanedRows(_)
CleanedRows(d) ==
    IF d = <<>> THEN <<>> ELSE CleanedRow(Head(d)) \o CleanedRows(Tail(d))

\* C3: clean_salaries works row by row: the output is the input rows that
\* have at least one salary bound, in order; a row with one bound has both
\* cells equal to it, a row with both keeps them; a row's outcome is the
\* same whatever the other rows are.
Thm_C3 ==
    called =>
        /\ ret = CleanedRows(arg)
        /\ \A k \in 1..Len(arg) : clean_salaries(<<arg[k]>>) = CleanedRow(arg[k])

\* A table with a row that has only salary_to, followed by a row with neither
Wit_C3 ==
    /\ called /\ Len(arg) = 2 /\ Len(ret) = 1
    /\ arg[1].salary_from = NaN /\ arg[1].salary_to = Num(2)
    /\ arg[2].salary_from = NaN /\ arg[2].salary_to = NaN
    /\ ret[1].salary_from = Num(2) /\ ret[1].salary_to = Num(2)

-----------------------------------------------------------------------------
(* calculate_salary *)

TypeError == [t |-> "TypeError", v |-> 0]

\* x + y on floats
Add(x, y) == IF x.t = "num" /\ y.t = "num" THEN Num(x.v + y.v) ELSE NaN

\* x / 2, the result in 1/200 units
Half(x) == IF x.t = "num" THEN Num(100 * x.v) ELSE NaN

\* salary * rate: salary in 1/200 units, rate in hundredths, result in 1/200
\* units; a float times None or a string raises TypeError
Mul(salary, rate) ==
    IF rate.t \in {"none", "str"} THEN TypeError
    ELSE IF salary.t = "num" /\ rate.t = "num" THEN Num((salary.v * rate.v) \div 100)
    ELSE NaN

\* dict.get(key, default)
get(rates, key, default) == IF key \in DOMAIN rates THEN rates[key] ELSE default

\* Mutant: the sum of the bounds is not halved
calculate_salary_NoHalf(row, currency_rates) ==
    IF isna(row.salary_from) /\ isna(row.salary_to) THEN None
    ELSE LET salary == Add(Half(row.salary_from), Half(row.salary_to))
         IN  Mul(Add(salary, salary), get(currency_rates, row.salary_currency, Num(100)))

calculate_salary(row, currency_rates) ==
    IF isna(row.salary_from) /\ isna(row.salary_to) THEN None
    ELSE LET salary == Half(Add(row.salary_from, row.salary_to))
         IN  Mul(salary, get(currency_rates, row.salary_currency, Num(100)))

\* Currency codes of a row: the four of the table, one it lacks, a missing cell
Currencies == {"RUR", "USD", "EUR", "KZT", "BYR", ""}

CalcRows ==
    [idx : {0}, name : {Text(<<"A">>)}, area_name : {"Moscow"}, published_at : {2023},
     salary_from : Salaries, salary_to : Salaries, salary_currency : Currencies,
     key_skills : {Text(<<"p">>)}]

\* The tables get_currency_rates can return
RateTables == {get_currency_rates(r).value : r \in Responses}

InitCalc ==
    /\ arg \in [row : CalcRows, currency_rates : RateTables]
    /\ ret = NoRet /\ called = FALSE /\ RunIdle

CallCalc ==
    /\ ~called
    /\ ret' = calculate_salary(arg.row, arg.currency_rates)
    /\ called' = TRUE
    /\ UNCHANGED <<arg, runVars>>

SpecCalc == InitCalc /\ [][CallCalc]_vars

\* The multiplier the claim names: the table's entry, 1 for a code not in it
Multiplier(row, table) ==
    IF row.salary_currency \in {"RUR", "USD", "EUR", "KZT"}
    THEN table[row.salary_currency] ELSE Num(100)

-----------------------------------------------------------------------------
(* The keyword filter of analyze_vacancies *)

\* str.lower / re.IGNORECASE on the characters used here
LowerOf ==
    [c \in {"A", "B", "CYR_I", "P", "J", "S", "Q", "L", "G"} |->
        CASE c = "A" -> "a" [] c = "B" -> "b" [] c = "CYR_I" -> "cyr_i"
          [] c = "P" -> "p" [] c = "J" -> "j" [] c = "S" -> "s"
          [] c = "Q" -> "q" [] c = "L" -> "l" [] c = "G" -> "g"]
Lower(c) == IF c \in DOMAIN LowerOf THEN LowerOf[c] ELSE c

\* sep.join(strs)
RECURSIVE join(_, _)
join(sep, strs) ==
    IF strs = <<>> THEN <<>>
    ELSE IF Len(strs) = 1 THEN strs[1]
    ELSE strs[1] \o <<sep>> \o join(sep, Tail(strs))

\* re.compile(pattern): the branches of the top-level alternation, the text
\* between the "|" characters (an empty pattern has one empty branch)
RECURSIVE Branches(_)
Branches(pattern) ==
    IF \E k \in 1..Len(pattern) : pattern[k] = "|"
    THEN LET k == CHOOSE k \in 1..Len(pattern) :
                      pattern[k] = "|" /\ \A j \in 1..(k - 1) : pattern[j] # "|"
         IN  <<SubSeq(pattern, 1, k - 1)>> \o Branches(SubSeq(pattern, k + 1, Len(pattern)))
    ELSE <<pattern>>

\* Mutant: the match is case-sensitive (case=False left out)
AtomMatches_CaseSensitive(a, c) == a = "." \/ a = c

\* One pattern character against one character of the text, ignoring case:
\* "." matches any character, another character matches itself
AtomMatches(a, c) == a = "." \/ Lower(a) = Lower(c)

\* The branch matches the text from position p on
MatchesAt(branch, s, p) ==
    /\ p + Len(branch) - 1 <= Len(s)
    /\ \A k \in 1..Len(branch) : AtomMatches(branch[k], s[p + k - 1])

\* pattern.search(s) is not None, with re.IGNORECASE
search(pattern, s) ==
    \E b \in 1..Len(Branches(pattern)) : \E p \in 1..(Len(s) + 1) :
        MatchesAt(Branches(pattern)[b], s, p)

\* Series.str.contains(pattern, case=False, regex=True, na=False) on one cell
contains(cell, pattern) == IF cell.t = "nan" THEN FALSE ELSE search(pattern, cell.s)

\* pattern = '|'.join(keywords); df[df['name'].str.contains(pattern, ...)]
FilterByKeywords(d, kws) ==
    LET pattern == join("|", kws)
        Keep(r) == contains(r.name, pattern)
    IN  SelectSeq(d, Keep)

\* The strings of 1..n (or 0..n) characters over chars
Strings(chars, lo, n) == UNION {[1..k -> chars] : k \in lo..n}

KeywordChars == {"a", "B", "."}
TitleChars == {"A", "b"}
Keywords == Strings(KeywordChars, 0, MaxKwLen)
KeywordLists == UNION {[1..k -> Keywords] : k \in 0..MaxKeywords}
Titles == {NaNText} \cup {Text(s) : s \in Strings(TitleChars, 1, MaxTitleLen)}

FilterRows ==
    [idx : {0}, name : Titles, area_name : {"Moscow"}, published_at : {2023},
     salary_from : {Num(1)}, salary_to : {Num(1)}, salary_currency : {"RUR"},
     key_skills : {Text(<<"p">>)}]

InitFilter ==
    /\ arg \in [df : {<<r>> : r \in FilterRows}, keywords : KeywordLists]
    /\ ret = NoRet /\ called = FALSE /\ RunIdle

CallFilter ==
    /\ ~called
    /\ ret' = FilterByKeywords(arg.df, arg.keywords)
    /\ called' = TRUE
    /\ UNCHANGED <<arg, runVars>>

SpecFilter == InitFilter /\ [][CallFilter]_vars

\* The title s contains the keyword kw, compared case-insensitively
ContainsIgnoringCase(s, kw) ==
    \E p \in 1..(Len(s) - Len(kw) + 1) :
        \A k \in 1..Len(kw) : Lower(kw[k]) = Lower(s[p + k - 1])

\* The same, the keyword read as a regular expression: "." is any character
ContainsAsRegex(s, kw) ==
    \E p \in 1..(Len(s) - Len(kw) + 1) :
        \A k \in 1..Len(kw) : kw[k] = "." \/ Lower(kw[k]) = Lower(s[p + k - 1])

RetainedIff(Test(_)) ==
    LET Keep(r) == r.name.t # "nan" /\ Test(r.name.s)
    IN  ret = SelectSeq(arg.df, Keep)

\* C7 as stated: for any keywords and table, a row is retained iff its title
\* contains at least one of the keywords, compared case-insensitively; a row
\* with a missing title is never retained.
Orig_C7 ==
    called =>
        LET Test(s) == \E n \in 1..Len(arg.keywords) :
                            ContainsIgnoringCase(s, arg.keywords[n])
        IN  RetainedIff(Test)

\* C7, amended: a row is retained iff its title is present and the regular
\* expression '|'.join(keywords) matches somewhere in it, ignoring case: some
\* keyword matches as a regular expression, or the keyword list is empty (the
\* empty pattern matches every title).  For a non-empty list of keywords
\* without regex metacharacters that is containment of one of the keywords,
\* compared case-insensitively.  A row with a missing title is never retained.
Thm_C7 ==
    called =>
        LET Test(s) == \/ arg.keywords = <<>>
                       \/ \E n \in 1..Len(arg.keywords) :
                              ContainsAsRegex(s, arg.keywords[n])
            Literal(s) == \E n \in 1..Len(arg.keywords) :
                              ContainsIgnoringCase(s, arg.keywords[n])
            Plain == /\ arg.keywords # <<>>
                     /\ \A n \in 1..Len(arg.keywords) :
                            \A k \in 1..Len(arg.keywords[n]) : arg.keywords[n][k] # "."
        IN  /\ RetainedIff(Test)
            /\ Plain => RetainedIff(Literal)

\* The title "A" is retained for the keywords "BB", "a": the second one
\* matches it, ignoring case
Wit_C7 ==
    /\ called /\ arg.keywords = << <<"B", "B">>, <<"a">> >>
    /\ arg.df[1].name = Text(<<"A">>)
    /\ ret = arg.df

-----------------------------------------------------------------------------
(* The skills split of plot_skills *)

\* str.lower
LowerStr(s) == [k \in 1..Len(s) |-> Lower(s[k])]

\* \s* from position p: the first position at or after p that holds no space
RECURSIVE SkipSpaces(_, _)
SkipSpaces(s, p) ==
    IF p <= Len(s) /\ s[p] = " " THEN SkipSpaces(s, p + 1) ELSE p

\* The regular expression  ,\s*|\s*<cyr_i>\s*|\s*/\s*  tried at position p:
\* the position after the match, 0 when there is no match at p
MatchEnd(s, p) ==
    IF s[p] = "," THEN SkipSpaces(s, p + 1)
    ELSE LET q == SkipSpaces(s, p)
         IN  IF q <= Len(s) /\ s[q] = "cyr_i" THEN SkipSpaces(s, q + 1)
             ELSE IF q <= Len(s) /\ s[q] = "/" THEN SkipSpaces(s, q + 1)
             ELSE 0

\* re.split: the text between successive leftmost matches, from position p
\* on, the current piece starting at position start
RECURSIVE SplitFrom(_, _, _)
SplitFrom(s, p, start) ==
    IF p > Len(s) THEN <<SubSeq(s, start, Len(s))>>
    ELSE IF MatchEnd(s, p) # 0
         THEN <<SubSeq(s, start, p - 1)>> \o SplitFrom(s, MatchEnd(s, p), MatchEnd(s, p))
         ELSE SplitFrom(s, p + 1, start)

\* str.strip
RECURSIVE strip(_)
strip(s) ==
    IF s # <<>> /\ Head(s) = " " THEN strip(Tail(s))
    ELSE IF s # <<>> /\ s[Len(s)] = " " THEN strip(SubSeq(s, 1, Len(s) - 1))
    ELSE s

\* .str.lower().str.split(...).explode().str.strip() on one cell
SplitSkills(s) ==
    LET pieces == SplitFrom(LowerStr(s), 1, 1)
    IN  [k \in 1..Len(pieces) |-> strip(pieces[k])]

\* Skill names, one of them with the Cyrillic letter inside, one of two words
SkillNames ==
    {<<"S", "Q", "L">>, <<"g", "cyr_i", "t">>, <<"j">>, <<"l", " ", "p">>}

\* The separators: a comma, the conjunction, a slash, with whitespace around
Separators ==
    {<<",">>, <<",", " ">>, <<" ", ",", " ">>, <<" ", "cyr_i", " ">>,
     <<"/">>, <<" ", "/", " ">>}

\* names[1] seps[1] names[2] ... names[n]
RECURSIVE Joined(_, _)
Joined(names, seps) ==
    IF Len(names) = 1 THEN names[1]
    ELSE names[1] \o seps[1] \o Joined(Tail(names), Tail(seps))

\* "Python, Java <cyr_i> SQL/Git"
ExampleNames ==
    << <<"P", "y", "t", "h", "o", "n">>, <<"J", "a", "v", "a">>,
       <<"S", "Q", "L">>, <<"G", "i", "t">> >>
ExampleSeps == << <<",", " ">>, <<" ", "cyr_i", " ">>, <<"/">> >>

InitSkills ==
    /\ \/ \E n \in 1..MaxSkills :
            \E names \in [1..n -> SkillNames], seps \in [1..(n - 1) -> Separators] :
                arg = [names |-> names, seps |-> seps, key_skills |-> Joined(names, seps)]
       \/ arg = [names |-> ExampleNames, seps |-> ExampleSeps,
                 key_skills |-> Joined(ExampleNames, ExampleSeps)]
    /\ ret = NoRet /\ called = FALSE /\ RunIdle

CallSkills ==
    /\ ~called
    /\ ret' = SplitSkills(arg.key_skills)
    /\ called' = TRUE
    /\ UNCHANGED <<arg, runVars>>

SpecSkills == InitSkills /\ [][CallSkills]_vars

\* C8: a key_skills string whose skill names are joined by commas, the
\* conjunction or slashes (each optionally surrounded by whitespace) is
\* flattened into exactly one lower-cased, trimmed value per skill
\* occurrence, in order.
Orig_C8 ==
    called => ret = [k \in 1..Len(arg.names) |-> LowerStr(arg.names[k])]

\* The example of C8: "Python, Java <cyr_i> SQL/Git" yields the four values
\* python, java, sql, git
SkillsExample ==
    (called /\ arg.names = ExampleNames) =>
        ret = << <<"p", "y", "t", "h", "o", "n">>, <<"j", "a", "v", "a">>,
                 <<"s", "q", "l">>, <<"g", "i", "t">> >>

\* C8 holds of the strings whose skill names are free of the Cyrillic letter
SkillsWithoutTheLetter ==
    (called /\ \A k \in 1..Len(arg.names) :
                  \A j \in 1..Len(arg.names[k]) : Lower(arg.names[k][j]) # "cyr_i") =>
        ret = [k \in 1..Len(arg.names) |-> LowerStr(arg.names[k])]

-----------------------------------------------------------------------------
(* Series helpers of the report and the charts *)

Range(q) == {q[k] : k \in DOMAIN q}

\* The numbers of a column, missing cells skipped (skipna)
Present(col) ==
    LET IsNum(x) == x.t = "num"
        kept == SelectSeq(col, IsNum)
    IN  [k \in 1..Len(kept) |-> kept[k].v]

RECURSIVE SumSeq(_)
SumSeq(q) == IF q = <<>> THEN 0 ELSE Head(q) + SumSeq(Tail(q))

RECURSIVE Sorted(_)
Sorted(q) ==
    IF q = <<>> THEN <<>>
    ELSE LET k == CHOOSE k \in 1..Len(q) : \A j \in 1..Len(q) : q[k] <= q[j]
         IN  <<q[k]>> \o Sorted(SubSeq(q, 1, k - 1) \o SubSeq(q, k + 1, Len(q)))

\* Series.min / Series.max of integers; <<>> stands for nan (no value)
MinOf(q) == IF q = <<>> THEN <<>> ELSE <<Sorted(q)[1]>>
MaxOf(q) == IF q = <<>> THEN <<>> ELSE <<Sorted(q)[Len(q)]>>

\* Series.mean: <<sum, count>>, the fraction sum / count; <<>> for nan
mean(col) ==
    IF Present(col) = <<>> THEN <<>> ELSE <<SumSeq(Present(col)), Len(Present(col))>>

\* Series.median: <<numerator, denominator>>; <<>> for nan
median(col) ==
    LET q == Sorted(Present(col))
        n == Len(q)
    IN  IF n = 0 THEN <<>>
        ELSE IF n % 2 = 1 THEN <<q[(n + 1) \div 2], 1>>
        ELSE <<q[n \div 2] + q[n \div 2 + 1], 2>>

\* Series.value_counts(): the pairs <<value, occurrences>>
value_counts(q) ==
    {<<x, Cardinality({k \in DOMAIN q : q[k] = x})>> : x \in Range(q)}

\* .head(n) of a value_counts() result (sorted by count, descending): the
\* pairs with fewer than n pairs of a larger count
head(counts, n) ==
    {c \in counts : Cardinality({d \in counts : d[2] > c[2]}) < n}

top_n_cities == 10
top_n_skills == 15

\* plot_top_cities_by_year: one figure per year that has rows, with the
\* vacancies per city of that year
plot_top_cities_by_year(d) ==
    LET years == Range(Column(d, "year"))
        OfYear(y) == LET In(r) == r.year = y IN SelectSeq(d, In)
        cities(y) == head(value_counts(Column(OfYear(y), "area_name")), top_n_cities)
    IN  [fn |-> "plot_top_cities_by_year",
         data |-> {<<y, cities(y)>> : y \in {y \in years : cities(y) # {}}}]

\* plot_salaries: the mean and the median salary of each year
plot_salaries(d) ==
    LET years == Range(Column(d, "year"))
        OfYear(y) == LET In(r) == r.year = y IN SelectSeq(d, In)
    IN  [fn |-> "plot_salaries",
         data |-> {<<y, mean(Column(OfYear(y), "salary")),
                        median(Column(OfYear(y), "salary"))>> : y \in years}]

RECURSIVE Flatten(_)
Flatten(qs) == IF qs = <<>> THEN <<>> ELSE Head(qs) \o Flatten(Tail(qs))

\* plot_skills: the occurrences of each skill
plot_skills(d) ==
    LET skills == Flatten([k \in 1..Len(d) |->
                     IF d[k].key_skills.t = "nan" THEN <<>>
                     ELSE SplitSkills(d[k].key_skills.s)])
    IN  [fn |-> "plot_skills", data |-> head(value_counts(skills), top_n_skills)]

-----------------------------------------------------------------------------
(* analyze_vacancies *)

\* What read_csv finds: no readable file, or a table, its published_at
\* column parsed as dates or (dates = FALSE) left as text
RunRows ==
    {[idx |-> 0, name |-> Text(<<"A">>), area_name |-> "Moscow", published_at |-> 2023,
      salary_from |-> Num(1), salary_to |-> NaN, salary_currency |-> "RUR",
      key_skills |-> Text(<<"p">>)],
     [idx |-> 0, name |-> Text(<<"b", "A">>), area_name |-> "Kazan", published_at |-> 2024,
      salary_from |-> Num(2), salary_to |-> Num(2), salary_currency |-> "USD",
      key_skills |-> Text(<<"p", ",", " ", "J">>)],
     [idx |-> 0, name |-> NaNText, area_name |-> "Moscow", published_at |-> 2023,
      salary_from |-> Num(1), salary_to |-> Num(1), salary_currency |-> "RUR",
      key_skills |-> Text(<<"p">>)],
     [idx |-> 0, name |-> Text(<<"A">>), area_name |-> "", published_at |-> 2023,
      salary_from |-> Num(1), salary_to |-> Num(1), salary_currency |-> "EUR",
      key_skills |-> Text(<<"p">>)],
     [idx |-> 0, name |-> Text(<<"A">>), area_name |-> "Moscow", published_at |-> 2024,
      salary_from |-> NaN, salary_to |-> NaN, salary_currency |-> "USD",
      key_skills |-> NaNText],
     [idx |-> 0, name |-> Text(<<"b">>), area_name |-> "Kazan", published_at |-> 2024,
      salary_from |-> NaN, salary_to |-> Num(2), salary_currency |-> "KZT",
      key_skills |-> Text(<<"j", "/", "p">>)]}

Files ==
    {[readable |-> FALSE, dates |-> TRUE, rows |-> <<>>]}
    \cup [readable : {TRUE}, dates : BOOLEAN, rows : Tables(RunRows)]

RunKeywords == { << <<"a">> >>, << <<"B">>, <<"a">> >>, << <<"b", "b">> >> }

\* The responses a request of the run gets: a failed request, a body with
\* usable values, a body whose USD value is null
RunResponses ==
    {[kind |-> "RequestException", USD |-> Absent, EUR |-> Absent, KZT |-> Absent],
     [kind |-> "JSON", USD |-> Num(MaxRate), EUR |-> Num(MaxRate), KZT |-> Num(MaxRate)],
     [kind |-> "JSON", USD |-> None, EUR |-> Num(MaxRate), KZT |-> Num(MaxRate)]}

Line(text, data) == [line |-> text, data |-> data]

\* Mutant: the except branch of read_csv does not return
Following_NoReturnOnReadError(step, outcome) ==
    CASE step = "read_csv" -> "clean"
      [] step = "clean" -> "filter"
      [] step = "filter" -> IF outcome = "empty" THEN "returned" ELSE "year"
      [] step = "year" -> IF outcome = "raise" THEN "raised" ELSE "apply"
      [] step = "apply" -> IF outcome = "raise" THEN "raised"
                           ELSE IF outcome = "more" THEN "apply" ELSE "report"
      [] step = "report" -> "plot_top_cities_by_year"
      [] step = "plot_top_cities_by_year" -> "plot_salaries"
      [] step = "plot_salaries" -> "plot_skills"
      [] step = "plot_skills" -> "returned"

\* Mutant: the empty result does not return
Following_NoReturnOnEmpty(step, outcome) ==
    CASE step = "read_csv" -> IF outcome = "raise" THEN "returned" ELSE "clean"
      [] step = "clean" -> "filter"
      [] step = "filter" -> "year"
      [] step = "year" -> IF outcome = "raise" THEN "raised" ELSE "apply"
      [] step = "apply" -> IF outcome = "raise" THEN "raised"
                           ELSE IF outcome = "more" THEN "apply" ELSE "report"
      [] step = "report" -> "plot_top_cities_by_year"
      [] step = "plot_top_cities_by_year" -> "plot_salaries"
      [] step = "plot_salaries" -> "plot_skills"
      [] step = "plot_skills" -> "returned"

\* Mutant: plot_salaries is called before the statistics are printed
Following_ChartBeforeReport(step, outcome) ==
    CASE step = "read_csv" -> IF outcome = "raise" THEN "returned" ELSE "clean"
      [] step = "clean" -> "filter"
      [] step = "filter" -> IF outcome = "empty" THEN "returned" ELSE "year"
      [] step = "year" -> IF outcome = "raise" THEN "raised" ELSE "apply"
      [] step = "apply" -> IF outcome = "raise" THEN "raised"
                           ELSE IF outcome = "more" THEN "apply" ELSE "plot_salaries"
      [] step = "report" -> "plot_top_cities_by_year"
      [] step = "plot_top_cities_by_year" -> "plot_skills"
      [] step = "plot_salaries" -> "report"
      [] step = "plot_skills" -> "returned"

\* The statement that follows a step of analyze_vacancies, given how the step
\* ended: "raise" (an exception), "empty" (no row left), "more" (apply has
\* rows left) or "ok"
Following(step, outcome) ==
    CASE step = "read_csv" -> IF outcome = "raise" THEN "returned" ELSE "clean"
      [] step = "clean" -> "filter"
      [] step = "filter" -> IF outcome = "empty" THEN "returned" ELSE "year"
      [] step = "year" -> IF outcome = "raise" THEN "raised" ELSE "apply"
      [] step = "apply" -> IF outcome = "raise" THEN "raised"
                           ELSE IF outcome = "more" THEN "apply" ELSE "report"
      [] step = "report" -> "plot_top_cities_by_year"
      [] step = "plot_top_cities_by_year" -> "plot_salaries"
      [] step = "plot_salaries" -> "plot_skills"
      [] step = "plot_skills" -> "returned"

CallIdle == arg = <<>> /\ ret = NoRet /\ called = FALSE

Init ==
    /\ file \in Files
    /\ keywords \in RunKeywords
    /\ pc = "read_csv"
    /\ df = <<>> /\ filtered = <<>> /\ i = 0 /\ result = <<>> /\ resps = <<>>
    /\ fetches = 0 /\ requests = 0 /\ stdout = <<>> /\ charts = <<>> /\ events = <<>>
    /\ CallIdle

\* df = pd.read_csv(filename, parse_dates=['published_at']), and its handler
ReadCsv ==
    /\ pc = "read_csv"
    /\ events' = Append(events, "load")
    /\ IF file.readable
       THEN /\ df' = file.rows
            /\ stdout' = stdout
            /\ pc' = Following("read_csv", "ok")
       ELSE /\ df' = df
            /\ stdout' = Append(stdout, Line("read error", <<>>))
            /\ pc' = Following("read_csv", "raise")
    /\ UNCHANGED <<file, keywords, filtered, i, result, resps, fetches, requests, charts,
                   callVars>>

\* df = clean_salaries(df); df = df.dropna(subset=['area_name', 'name'])
Clean ==
    /\ pc = "clean"
    /\ events' = Append(events, "normalize")
    /\ df' = dropna(clean_salaries(df), {"area_name", "name"}, "any")
    /\ pc' = Following("clean", "ok")
    /\ UNCHANGED <<file, keywords, filtered, i, result, resps, fetches, requests, stdout,
                   charts, callVars>>

\* The filter by keywords and the return on an empty result
Filter ==
    /\ pc = "filter"
    /\ events' = Append(events, "filter")
    /\ filtered' = FilterByKeywords(df, keywords)
    /\ IF Len(filtered') = 0
       THEN /\ stdout' = Append(stdout, Line("no vacancies", <<>>))
            /\ pc' = Following("filter", "empty")
       ELSE /\ stdout' = stdout
            /\ pc' = Following("filter", "ok")
    /\ UNCHANGED <<file, keywords, df, i, result, resps, fetches, requests, charts,
                   callVars>>

\* df[f] = col for a new column f
AddColumn(d, f, col) == [k \in 1..Len(d) |-> (f :> col[k]) @@ d[k]]

\* filtered['year'] = filtered['published_at'].dt.year: .dt raises
\* AttributeError on a column that was not parsed as dates
Year ==
    /\ pc = "year"
    /\ events' = Append(events, "enrich")
    /\ IF file.dates
       THEN /\ filtered' = AddColumn(filtered, "year", Column(filtered, "published_at"))
            /\ i' = 1
            /\ pc' = Following("year", "ok")
       ELSE /\ UNCHANGED <<filtered, i>>
            /\ pc' = Following("year", "raise")
    /\ UNCHANGED <<file, keywords, df, result, resps, fetches, requests, stdout, charts,
                   callVars>>

\* .dropna() of the applied values, assigned as a column by index
AssignSalary(d, values) ==
    AddColumn(d, "salary", [k \in 1..Len(d) |-> IF isna(values[k]) THEN NaN ELSE values[k]])

\* Mutant: the rates are fetched for the first row only and reused
ApplyRow_FetchOnce(resp) ==
    LET first == i = 1
        rates == get_currency_rates(IF first THEN resp ELSE resps[1])
        value == calculate_salary(filtered[i], rates.value)
        last == i = Len(filtered)
    IN  /\ resps' = IF first THEN Append(resps, resp) ELSE resps
        /\ fetches' = IF first THEN fetches + 1 ELSE fetches
        /\ requests' = IF first THEN requests + rates.requests ELSE requests
        /\ stdout' = IF first /\ rates.printed
                     THEN Append(stdout, Line("rates error", <<>>)) ELSE stdout
        /\ IF value = TypeError
           THEN /\ UNCHANGED <<result, i, filtered>>
                /\ pc' = Following("apply", "raise")
           ELSE /\ result' = Append(result, value)
                /\ i' = i + 1
                /\ filtered' = IF last THEN AssignSalary(filtered, result') ELSE filtered
                /\ pc' = Following("apply", IF last THEN "ok" ELSE "more")

\* One row of filtered.apply(lambda row: calculate_salary(row,
\* get_currency_rates()), axis=1): the request gets the response resp.  After
\* the last row the values become the column salary.
ApplyRow(resp) ==
    LET rates == get_currency_rates(resp)
        value == IF rates.kind = "raise" THEN TypeError
                 ELSE calculate_salary(filtered[i], rates.value)
        last == i = Len(filtered)
    IN  /\ resps' = Append(resps, resp)
        /\ fetches' = fetches + 1
        /\ requests' = requests + rates.requests
        /\ stdout' = IF rates.printed THEN Append(stdout, Line("rates error", <<>>))
                     ELSE stdout
        /\ IF value = TypeError
           THEN /\ UNCHANGED <<result, i, filtered>>
                /\ pc' = Following("apply", "raise")
           ELSE /\ result' = Append(result, value)
                /\ i' = i + 1
                /\ filtered' = IF last THEN AssignSalary(filtered, result') ELSE filtered
                /\ pc' = Following("apply", IF last THEN "ok" ELSE "more")

Apply ==
    /\ pc = "apply"
    /\ IF Len(filtered) = 0
       THEN /\ filtered' = AssignSalary(filtered, <<>>)
            /\ pc' = Following("apply", "ok")
            /\ UNCHANGED <<i, result, resps, fetches, requests, stdout>>
       ELSE \E resp \in RunResponses : ApplyRow(resp)
    /\ UNCHANGED <<file, keywords, df, charts, events, callVars>>

\* The three print statements of the analysis
Report ==
    /\ pc = "report"
    /\ events' = Append(events, "report")
    /\ stdout' = stdout \o
          <<Line("found", <<Len(filtered)>> \o MinOf(Column(filtered, "year"))
                              \o MaxOf(Column(filtered, "year"))),
            Line("mean", mean(Column(filtered, "salary"))),
            Line("median", median(Column(filtered, "salary")))>>
    /\ pc' = Following("report", "ok")
    /\ UNCHANGED <<file, keywords, df, filtered, i, result, resps, fetches, requests,
                   charts, callVars>>

PlotTopCities ==
    /\ pc = "plot_top_cities_by_year"
    /\ events' = Append(events, "cities")
    /\ charts' = Append(charts, plot_top_cities_by_year(filtered))
    /\ pc' = Following("plot_top_cities_by_year", "ok")
    /\ UNCHANGED <<file, keywords, df, filtered, i, result, resps, fetches, requests,
                   stdout, callVars>>

PlotSalaries ==
    /\ pc = "plot_salaries"
    /\ events' = Append(events, "salaries")
    /\ charts' = Append(charts, plot_salaries(filtered))
    /\ pc' = Following("plot_salaries", "ok")
    /\ UNCHANGED <<file, keywords, df, filtered, i, result, resps, fetches, requests,
                   stdout, callVars>>

PlotSkills ==
    /\ pc = "plot_skills"
    /\ events' = Append(events, "skills")
    /\ charts' = Append(charts, plot_skills(filtered))
    /\ pc' = Following("plot_skills", "ok")
    /\ UNCHANGED <<file, keywords, df, filtered, i, result, resps, fetches, requests,
                   stdout, callVars>>

Next ==
    \/ ReadCsv \/ Clean \/ Filter \/ Year \/ Apply
    \/ Report \/ PlotTopCities \/ PlotSalaries \/ PlotSkills

Spec == Init /\ [][Next]_vars

-----------------------------------------------------------------------------
(* Properties of the run *)

Steps ==
    <<"load", "normalize", "filter", "enrich", "report", "cities", "salaries", "skills">>

ChartFunctions == <<"plot_top_cities_by_year", "plot_salaries", "plot_skills">>

IsPrefix(a, b) == Len(a) <= Len(b) /\ a = SubSeq(b, 1, Len(a))

Printed(text) == \E k \in 1..Len(stdout) : stdout[k].line = text

\* C4: when reading the file fails an error message is printed and the run
\* ends at once: no normalization, no filtering, no rate fetch, no
\* statistics and no chart.
Thm_C4 ==
    ~file.readable =>
        /\ pc \in {"read_csv", "returned"}
        /\ events = IF pc = "read_csv" THEN <<>> ELSE <<"load">>
        /\ stdout = IF pc = "read_csv" THEN <<>> ELSE <<Line("read error", <<>>)>>
        /\ df = <<>> /\ filtered = <<>>
        /\ fetches = 0 /\ requests = 0 /\ charts = <<>>

Wit_C4 == ~file.readable /\ pc = "returned" /\ Printed("read error")

\* No row of the cleaned table has a title that contains a keyword
NoTitleMatches ==
    /\ "filter" \in Range(events)
    /\ \A k \in 1..Len(df) : \A n \in 1..Len(keywords) :
           ~(df[k].name.t = "str" /\ ContainsIgnoringCase(df[k].name.s, keywords[n]))

\* C5: when no title matches the keywords the run prints the "no vacancies"
\* message and ends: no rate fetch, no statistics, no chart function called.
Thm_C5 ==
    NoTitleMatches =>
        /\ pc = "returned"
        /\ stdout = <<Line("no vacancies", <<>>)>>
        /\ events = <<"load", "normalize", "filter">>
        /\ fetches = 0 /\ requests = 0 /\ charts = <<>>

Wit_C5 == NoTitleMatches /\ Len(df) = 2 /\ pc = "returned" /\ Printed("no vacancies")

\* C9: every run is a prefix of load, normalize, filter, enrich, report and
\* the three charts, each step at most once and in that order; the
\* statistics are printed before any chart is drawn; a run that has printed
\* them does not stop before all three chart functions were called, in order
\* (the run is always at a statement that can execute, or has ended).
Thm_C9 ==
    /\ IsPrefix(events, Steps)
    /\ IsPrefix([k \in 1..Len(charts) |-> charts[k].fn], ChartFunctions)
    /\ charts # <<>> => (Printed("found") /\ Printed("mean") /\ Printed("median"))
    /\ "report" \in Range(events) =>
           /\ pc \in {"plot_top_cities_by_year", "plot_salaries", "plot_skills", "returned"}
           /\ pc = "returned" => (events = Steps /\ Len(charts) = 3)
    /\ pc \in {"read_csv", "clean", "filter", "year", "apply", "report",
               "plot_top_cities_by_year", "plot_salaries", "plot_skills",
               "returned", "raised"}
    /\ pc = "apply" => i \in 1..Len(filtered)

Wit_C9 == pc = "returned" /\ events = Steps /\ Len(charts) = 3 /\ Len(filtered) = 2

\* The multiplier of the fallback table for a currency code, in hundredths
FallbackMultiplier(code) ==
    CASE code = "USD" -> 9000 [] code = "EUR" -> 10000 [] code = "KZT" -> 18
      [] OTHER -> 100

\* C10: in a run that reaches the enrich step the rates are fetched exactly
\* once per filtered row, each fetch makes exactly one request, and a failed
\* request affects only its row: the row is converted with the fallback
\* table, the other rows with the table their own request got, and the run
\* goes on to the report and the charts.
Thm_C10 ==
    /\ requests = fetches /\ Len(resps) = fetches
    /\ pc = "apply" => (fetches = i - 1 /\ Len(result) = i - 1)
    /\ "report" \in Range(events) => (fetches = Len(filtered) /\ Len(result) = Len(filtered))
    /\ Len(result) <= Len(resps)
    /\ \A k \in 1..Len(result) :
           IF FetchRaises(resps[k])
           THEN result[k] = Num((filtered[k].salary_from.v + filtered[k].salary_to.v)
                                    * FallbackMultiplier(filtered[k].salary_currency))
           ELSE result[k] = calculate_salary(filtered[k], LiveRates(resps[k]).rates)
    /\ (pc = "raised" /\ resps # <<>>) => ~FetchRaises(resps[Len(resps)])
    /\ (pc = "returned" /\ resps # <<>>) => (events = Steps /\ Len(charts) = 3)

\* Two filtered rows, the first request failed, the second did not
Wit_C10 ==
    /\ pc = "returned" /\ Len(filtered) = 2 /\ fetches = 2 /\ requests = 2
    /\ FetchRaises(resps[1]) /\ ~FetchRaises(resps[2])
    /\ filtered[1].salary # filtered[2].salary
    /\ Len(charts) = 3

====
